---- MODULE Spec2Model ----
(***************************************************************************)
(* Market-basket pipeline of src/AssosiationRules.py: raw records ->       *)
(* item/reference map -> transactions -> boolean matrix -> frequent        *)
(* itemsets -> association rules -> annotated rules -> rule graph with     *)
(* normalised node sizes.                                                  *)
(*                                                                         *)
(* A Python str is a sequence of code points, so that sorted(), ', '.join, *)
(* str.strip, str.zfill, re.sub and the substring test `a in b` are        *)
(* computed character by character.  A float that the script obtains by    *)
(* dividing integers is the exact rational [num, den].                     *)
(***************************************************************************)
EXTENDS Integers, Sequences, FiniteSets, TLC

VARIABLES
    pc,                \* position of the script (the section about to run)
    err,               \* "" or the exception that ended the run
    ncols,             \* df.shape[1]
    df,                \* rows of the sheet: [id, item, ref]
    item_bestell_map,  \* dict raw item -> Bestellnummer
    transactions,      \* list of lists of item names
    columns,           \* te.columns_
    df_transformed,    \* boolean matrix, rows x columns
    min_support,       \* threshold handed to apriori
    min_confidence,    \* threshold handed to association_rules
    frequent_itemsets, \* rows [support, itemsets]
    rules,             \* the rule table
    rules_export,      \* the table written to the output sheet
    G,                 \* nx.DiGraph: [nodes, edges]
    node_sizes,        \* dict node -> aggregate combination_count
    min_size,
    max_size,
    scaled_sizes,      \* dict node -> display size
    id_pc,             \* position inside create_unique_8digit_id
    mod_value,         \* its local mod_value
    mod_str            \* its local mod_str

vars == <<pc, err, ncols, df, item_bestell_map, transactions, columns,
          df_transformed, min_support, min_confidence, frequent_itemsets,
          rules, rules_export, G, node_sizes, min_size, max_size,
          scaled_sizes, id_pc, mod_value, mod_str>>

-----------------------------------------------------------------------------
(* Bounds of the model *)

MaxRecs == 3
MaxTx == 4
MaxMantissa == 120
MaxCount == 3

-----------------------------------------------------------------------------
(* Characters and strings *)

SP == 32
COMMA == 44
DASH == 45
ZERO == 48
NINE == 57

Range(s) == {s[i] : i \in 1..Len(s)}

Minimum(S) == CHOOSE x \in S : \A y \in S : x <= y
Maximum(S) == CHOOSE x \in S : \A y \in S : x >= y

RECURSIVE LexLess(_, _)
LexLess(s, t) ==
    IF s = <<>> THEN t # <<>>
    ELSE IF t = <<>> THEN FALSE
    ELSE IF Head(s) = Head(t) THEN LexLess(Tail(s), Tail(t))
    ELSE Head(s) < Head(t)

RECURSIVE Sorted(_)
Sorted(S) ==
    IF S = {} THEN <<>>
    ELSE LET m == CHOOSE x \in S : \A y \in S \ {x} : LexLess(x, y)
         IN  <<m>> \o Sorted(S \ {m})

RECURSIVE Join(_, _)
Join(sep, parts) ==
    IF parts = <<>> THEN <<>>
    ELSE IF Len(parts) = 1 THEN parts[1]
    ELSE parts[1] \o sep \o Join(sep, Tail(parts))

RECURSIVE LStrip(_)
LStrip(s) == IF s # <<>> /\ Head(s) = SP THEN LStrip(Tail(s)) ELSE s

RECURSIVE RStrip(_)
RStrip(s) ==
    IF s # <<>> /\ s[Len(s)] = SP THEN RStrip(SubSeq(s, 1, Len(s) - 1)) ELSE s

Strip(s) == RStrip(LStrip(s))

Contains(needle, hay) ==
    \E i \in 0..(Len(hay) - Len(needle)) :
        SubSeq(hay, i + 1, i + Len(needle)) = needle

RECURSIVE Str(_)
Str(n) == IF n < 10 THEN <<ZERO + n>> ELSE Str(n \div 10) \o <<ZERO + (n % 10)>>

RECURSIVE Zfill(_, _)
Zfill(s, width) == IF Len(s) >= width THEN s ELSE Zfill(<<ZERO>> \o s, width)

RECURSIVE LeadingZeros(_)
LeadingZeros(s) ==
    IF s # <<>> /\ Head(s) = ZERO THEN 1 + LeadingZeros(Tail(s)) ELSE 0

\* (every zero replaced, not only the leading run)
ReSubAllZeros(s) == [i \in 1..Len(s) |-> IF s[i] = ZERO THEN NINE ELSE s[i]]

ReSubLeadingZeros(s) ==
    LET k == LeadingZeros(s)
    IN  [i \in 1..Len(s) |-> IF i <= k THEN NINE ELSE s[i]]

-----------------------------------------------------------------------------
(* Input data *)

NaN == << -1 >>
ItemA == <<65>>
ItemB == <<66>>
ItemC == <<67>>
ItemAB == <<65, COMMA, SP, 66>>
ItemPadA == <<SP, 65>>

RefCodes == {3, 10}
RawItems == {ItemA, ItemPadA, ItemB, NaN}
\* rows of two transactions; item A occurs with either code
RawRows ==
    {r \in [id : {1, 2}, item : RawItems, ref : RefCodes] :
        /\ r.item \in {ItemB, NaN} => r.ref = 3
        /\ r.item = ItemPadA => r.ref = 10}
RawInputs == UNION {[1..n -> RawRows] : n \in 0..MaxRecs}

Universes == {{ItemA, ItemB, ItemC}, {ItemA, ItemB, ItemAB}}
RefOf(item) == IF item \in {ItemA, ItemC} THEN 3 ELSE 10

RECURSIVE RowsOf(_, _)
RowsOf(t, items) ==
    IF items = <<>> THEN <<>>
    ELSE <<[id |-> t, item |-> Head(items), ref |-> RefOf(Head(items))]>>
         \o RowsOf(t, Tail(items))

BasketRows(t, basket) ==
    IF basket = {} THEN <<[id |-> t, item |-> NaN, ref |-> 3]>>
    ELSE RowsOf(t, Sorted(basket))

RECURSIVE SheetOf(_, _)
SheetOf(baskets, t) ==
    IF t > Len(baskets) THEN <<>>
    ELSE BasketRows(t, baskets[t]) \o SheetOf(baskets, t + 1)

\* which items of the universe a basket holds, as a sequence of 0 and 1
Membership(basket, universe) ==
    LET us == Sorted(universe)
    IN  [i \in 1..Len(us) |-> IF us[i] \in basket THEN 1 ELSE 0]

\* up to MaxTx baskets over a universe of items, the baskets of a sheet listed
\* in the order of their membership vectors
BasketLists(U) ==
    UNION {{b \in [1..n -> SUBSET U] :
               \A i \in 1..(n - 1) :
                   ~LexLess(Membership(b[i + 1], U), Membership(b[i], U))} :
           n \in 1..MaxTx}

BasketInputs == {SheetOf(b, 1) : b \in UNION {BasketLists(U) : U \in Universes}}

NarrowInputs == {<<2, <<>>>>, <<2, <<[id |-> 1, item |-> ItemA]>>>>,
                 <<1, <<[id |-> 1]>>>>, <<0, <<>>>>}

MinSupportDefault == [num |-> 1, den |-> 1000]
MinConfidenceDefault == [num |-> 15, den |-> 100]

-----------------------------------------------------------------------------
(* 2) Mapping Artikel -> Bestellnummer *)

Front(s) == SubSeq(s, 1, Len(s) - 1)
Last(s) == s[Len(s)]

\* DataFrame.drop_duplicates(): the first row of every distinct row is kept
RECURSIVE DropDuplicates(_)
DropDuplicates(s) ==
    IF s = <<>> THEN <<>>
    ELSE LET init == DropDuplicates(Front(s))
         IN  IF Last(s) \in Range(init) THEN init ELSE Append(init, Last(s))

\* (the pair already stored for a key is kept)
RECURSIVE DictZipKeepFirst(_)
DictZipKeepFirst(pairs) ==
    IF pairs = <<>> THEN <<>>
    ELSE LET init == DictZipKeepFirst(Front(pairs))
             last == Last(pairs)
         IN  [k \in (DOMAIN init) \cup {last[1]} |->
                 IF k \in DOMAIN init THEN init[k] ELSE last[2]]

\* dict(zip(keys, values)): a later pair replaces an earlier one of the same key
RECURSIVE DictZip(_)
DictZip(pairs) ==
    IF pairs = <<>> THEN <<>>
    ELSE LET init == DictZip(Front(pairs))
             last == Last(pairs)
         IN  [k \in (DOMAIN init) \cup {last[1]} |->
                 IF k = last[1] THEN last[2] ELSE init[k]]

ItemRefPairs(sheet) == [i \in 1..Len(sheet) |-> <<sheet[i].item, sheet[i].ref>>]

ItemBestellMap(sheet) == DictZip(DropDuplicates(ItemRefPairs(sheet)))

-----------------------------------------------------------------------------
(* 3) Transaktionsdaten *)

RECURSIVE Ascending(_)
Ascending(S) ==
    IF S = {} THEN <<>>
    ELSE LET m == CHOOSE x \in S : \A y \in S : x <= y
         IN  <<m>> \o Ascending(S \ {m})

\* the lambda of the groupby: stripped names of the cells that are not NaN
RECURSIVE CleanItems(_)
CleanItems(cells) ==
    IF cells = <<>> THEN <<>>
    ELSE IF Head(cells) = NaN THEN CleanItems(Tail(cells))
    ELSE <<Strip(Head(cells))>> \o CleanItems(Tail(cells))

GroupCells(sheet, id) ==
    LET rows == SelectSeq(sheet, LAMBDA r : r.id = id)
    IN  [i \in 1..Len(rows) |-> rows[i].item]

\* groupby sorts the groups by key; one list per transaction id
Grouped(sheet) ==
    LET ids == Ascending({sheet[i].id : i \in 1..Len(sheet)})
    IN  [g \in 1..Len(ids) |-> CleanItems(GroupCells(sheet, ids[g]))]

-----------------------------------------------------------------------------
(* 4) TransactionEncoder *)

TeColumns(txs) == Sorted(UNION {Range(txs[t]) : t \in 1..Len(txs)})

TeTransform(txs, cols) ==
    [t \in 1..Len(txs) |-> [c \in 1..Len(cols) |-> cols[c] \in Range(txs[t])]]

-----------------------------------------------------------------------------
(* 5) Apriori *)

\* number of rows of the matrix in which every column of combo is True
RowCount(X, combo) ==
    Cardinality({t \in 1..Len(X) : \A c \in combo : X[t][c]})

SupportOfCols(X, combo) == [num |-> RowCount(X, combo), den |-> Len(X)]

\* (a strict comparison in place of >=)
MeetsSupportStrict(sup, ms) == sup.num * ms.den > ms.num * sup.den

\* support >= min_support
MeetsSupport(sup, ms) == sup.num * ms.den >= ms.num * sup.den

RECURSIVE Concat(_)
Concat(ss) == IF ss = <<>> THEN <<>> ELSE Head(ss) \o Concat(Tail(ss))

\* every old combination extended by each item of the previous level that
\* is greater than its last item
GenerateNewCombinations(old) ==
    LET prev == Ascending(UNION {Range(old[i]) : i \in 1..Len(old)})
        ext(o) == LET valid == SelectSeq(prev, LAMBDA x : x > Last(o))
                  IN  [j \in 1..Len(valid) |-> Append(o, valid[j])]
    IN  Concat([i \in 1..Len(old) |-> ext(old[i])])

FrequentOf(X, ms, combin) ==
    SelectSeq(combin, LAMBDA c : MeetsSupport(SupportOfCols(X, Range(c)), ms))

\* the while loop of apriori: levels 2, 3, ... until no candidate is left
\* or none is frequent
RECURSIVE AprioriLevels(_, _, _)
AprioriLevels(X, ms, level) ==
    LET combin == GenerateNewCombinations(level)
        kept == FrequentOf(X, ms, combin)
    IN  IF combin = <<>> \/ kept = <<>> THEN <<>>
        ELSE kept \o AprioriLevels(X, ms, kept)

Apriori(X, cols, ms) ==
    LET first == FrequentOf(X, ms, [c \in 1..Len(cols) |-> <<c>>])
        all == first \o AprioriLevels(X, ms, first)
    IN  [i \in 1..Len(all) |->
            [support |-> SupportOfCols(X, Range(all[i])),
             itemsets |-> {cols[c] : c \in Range(all[i])}]]

-----------------------------------------------------------------------------
(* association_rules *)

\* itertools.combinations(s, r), in its order
RECURSIVE Combinations(_, _)
Combinations(s, r) ==
    IF r = 0 THEN << <<>> >>
    ELSE IF Len(s) < r THEN <<>>
    ELSE LET with == Combinations(Tail(s), r - 1)
         IN  [i \in 1..Len(with) |-> <<Head(s)>> \o with[i]]
             \o Combinations(Tail(s), r)

\* frequent_items_dict[S]
SupportOf(freq, S) ==
    freq[CHOOSE i \in 1..Len(freq) : freq[i].itemsets = S].support

\* (the division by the antecedent's support left out)
ConfidenceUndivided(sAC, sA) == [num |-> sAC.num, den |-> sAC.den]

\* sAC / sA
Confidence(sAC, sA) == [num |-> sAC.num * sA.den, den |-> sAC.den * sA.num]

\* (a strict comparison in place of >=)
MeetsThresholdStrict(score, mc) == score.num * mc.den > mc.num * score.den

\* score >= min_threshold
MeetsThreshold(score, mc) == score.num * mc.den >= mc.num * score.den

\* the rules of one frequent itemset k whose elements iterate in the order
\* ks: antecedents of len(k)-1 items first, single items last
RECURSIVE RulesOfSize(_, _, _, _, _)
RulesOfSize(freq, k, ks, idx, mc) ==
    IF idx = 0 THEN <<>>
    ELSE LET cs == Combinations(ks, idx)
             rule(c) == [antecedents |-> Range(c),
                         consequents |-> k \ Range(c),
                         support |-> SupportOf(freq, k),
                         confidence |-> Confidence(SupportOf(freq, k),
                                                   SupportOf(freq, Range(c)))]
             all == [i \in 1..Len(cs) |-> rule(cs[i])]
         IN  SelectSeq(all, LAMBDA r : MeetsThreshold(r.confidence, mc))
             \o RulesOfSize(freq, k, ks, idx - 1, mc)

\* hashorder: the order in which a frozenset of item names iterates
AssociationRules(freq, mc, hashorder) ==
    LET of(k) == LET ks == SelectSeq(hashorder, LAMBDA x : x \in k)
                 IN  RulesOfSize(freq, k, ks, Len(ks) - 1, mc)
    IN  Concat([i \in 1..Len(freq) |-> of(freq[i].itemsets)])

HashOrders(S) ==
    {p \in [1..Cardinality(S) -> S] : \A i, j \in DOMAIN p : i # j => p[i] # p[j]}

-----------------------------------------------------------------------------
(* 6) - 9) the derived columns *)

ColumnOf(cols, name) == CHOOSE c \in 1..Len(cols) : cols[c] = name

CombinationCount(X, cols, row) ==
    Cardinality({t \in 1..Len(X) :
        /\ \A a \in row.antecedents : X[t][ColumnOf(cols, a)]
        /\ \A c \in row.consequents : X[t][ColumnOf(cols, c)]})

GetMatCombination(map, row) ==
    LET items_in_rule == row.antecedents \cup row.consequents
        bestellnummern == {Str(map[item]) : item \in items_in_rule \cap DOMAIN map}
    IN  Join(<<DASH>>, Sorted(bestellnummern))

IdWidth == 8
Modulus == 10 ^ IdWidth

\* int(sha256(s).hexdigest(), 16) % 10**8 of the strings get_mat_combination
\* can return for the reference codes 3 and 10
Sha256Mod(s) ==
    CASE s = <<>> -> 65086549
      [] s = Str(3) -> 5321678
      [] s = Str(10) -> 49103317
      [] s = Str(10) \o <<DASH>> \o Str(3) -> 69030667

CreateUnique8DigitId(combination_string) ==
    ReSubLeadingZeros(Zfill(Str(Sha256Mod(combination_string)), IdWidth))

DifferentItems(row) == Cardinality(row.antecedents \cup row.consequents)

Annotated(X, cols, map, row) ==
    LET mat == GetMatCombination(map, row)
    IN  [antecedents |-> row.antecedents,
         consequents |-> row.consequents,
         support |-> row.support,
         confidence |-> row.confidence,
         combination_count |-> CombinationCount(X, cols, row),
         Mat_combination |-> mat,
         Mat_combination_id |-> CreateUnique8DigitId(mat),
         different_items |-> DifferentItems(row)]

(* 10) ', '.join(sorted(list(x))) *)
Render(x) == Join(<<COMMA, SP>>, Sorted(x))

Rendered(row) ==
    [row EXCEPT !.antecedents = Render(row.antecedents),
                !.consequents = Render(row.consequents)]

-----------------------------------------------------------------------------
(* 12) the graph *)

EmptyGraph == [nodes |-> <<>>, edges |-> <<>>]

AddNode(nodes, n) == IF n \in Range(nodes) THEN nodes ELSE Append(nodes, n)

\* (the attributes of an edge that exists are kept)
AddEdgeKeepFirst(g, u, v, attr) ==
    [nodes |-> AddNode(AddNode(g.nodes, u), v),
     edges |-> [e \in (DOMAIN g.edges) \cup {<<u, v>>} |->
                   IF e \in DOMAIN g.edges THEN g.edges[e] ELSE attr]]

\* DiGraph.add_edge(u, v, **attr): both nodes are added when new, and the
\* attributes of the edge (u, v) are set
AddEdge(g, u, v, attr) ==
    [nodes |-> AddNode(AddNode(g.nodes, u), v),
     edges |-> [e \in (DOMAIN g.edges) \cup {<<u, v>>} |->
                   IF e = <<u, v>> THEN attr ELSE g.edges[e]]]

RECURSIVE AddEdges(_, _)
AddEdges(g, rows) ==
    IF rows = <<>> THEN g
    ELSE AddEdges(AddEdge(g, Head(rows).antecedents, Head(rows).consequents,
                          [weight |-> Head(rows).confidence,
                           combination_count |-> Head(rows).combination_count]),
                  Tail(rows))

\* the lambda of the node loop: `node in row[...]` on two strings
Touches(node, row) ==
    Contains(node, row.antecedents) \/ Contains(node, row.consequents)

RECURSIVE TotalCount(_, _)
TotalCount(node, rows) ==
    IF rows = <<>> THEN 0
    ELSE (IF Touches(node, Head(rows)) THEN Head(rows).combination_count ELSE 0)
         + TotalCount(node, Tail(rows))

NodeSizes(g, rows) == [node \in Range(g.nodes) |-> TotalCount(node, rows)]

MinSizeDefault == 300
MaxSizeDefault == 3000

\* (scaled by count / max_count, the minimum not subtracted)
ScaledSizesByMax(sizes, lo, hi) ==
    LET counts == {sizes[n] : n \in DOMAIN sizes}
    IN  IF counts # {}
        THEN LET min_count == Minimum(counts)
                 max_count == Maximum(counts)
             IN  IF max_count = min_count
                 THEN [n \in DOMAIN sizes |-> [num |-> lo + hi, den |-> 2]]
                 ELSE [n \in DOMAIN sizes |->
                          [num |-> lo * max_count + sizes[n] * (hi - lo),
                           den |-> max_count]]
        ELSE [n \in DOMAIN sizes |-> [num |-> lo, den |-> 1]]

ScaledSizes(sizes, lo, hi) ==
    LET counts == {sizes[n] : n \in DOMAIN sizes}
    IN  IF counts # {}
        THEN LET min_count == Minimum(counts)
                 max_count == Maximum(counts)
             IN  IF max_count = min_count
                 THEN [n \in DOMAIN sizes |-> [num |-> lo + hi, den |-> 2]]
                 ELSE [n \in DOMAIN sizes |->
                          [num |-> lo * (max_count - min_count)
                                   + (sizes[n] - min_count) * (hi - lo),
                           den |-> max_count - min_count]]
        ELSE [n \in DOMAIN sizes |-> [num |-> lo, den |-> 1]]

-----------------------------------------------------------------------------
(* The run of the script *)

RequiredColumns == 3

Start(n, sheet, ms, mc) ==
    /\ pc = "check_columns"
    /\ err = ""
    /\ ncols = n
    /\ df = sheet
    /\ item_bestell_map = <<>>
    /\ transactions = <<>>
    /\ columns = <<>>
    /\ df_transformed = <<>>
    /\ min_support = ms
    /\ min_confidence = mc
    /\ frequent_itemsets = <<>>
    /\ rules = <<>>
    /\ rules_export = <<>>
    /\ G = EmptyGraph
    /\ node_sizes = <<>>
    /\ min_size = 0
    /\ max_size = 0
    /\ scaled_sizes = <<>>
    /\ id_pc = "idle"
    /\ mod_value = 0
    /\ mod_str = <<>>

Init ==
    \/ \E sheet \in RawInputs \cup BasketInputs :
           Start(RequiredColumns, sheet, MinSupportDefault, MinConfidenceDefault)
    \/ \E in \in NarrowInputs :
           Start(in[1], in[2], MinSupportDefault, MinConfidenceDefault)

idvars == <<id_pc, mod_value, mod_str>>
cfgvars == <<min_support, min_confidence>>

Raise(what) ==
    /\ pc' = "error"
    /\ err' = what

\* lines 16-18
CheckColumns ==
    /\ pc = "check_columns"
    /\ IF ncols < RequiredColumns
       THEN Raise("ValueError: columns")
       ELSE pc' = "map" /\ err' = err
    /\ UNCHANGED <<ncols, df, item_bestell_map, transactions, columns,
                   df_transformed, frequent_itemsets, rules, rules_export, G,
                   node_sizes, min_size, max_size, scaled_sizes, idvars, cfgvars>>

\* lines 36-37
BuildMap ==
    /\ pc = "map"
    /\ item_bestell_map' = ItemBestellMap(df)
    /\ pc' = "group"
    /\ UNCHANGED <<err, ncols, df, transactions, columns,
                   df_transformed, frequent_itemsets, rules, rules_export, G,
                   node_sizes, min_size, max_size, scaled_sizes, idvars, cfgvars>>

\* lines 41-47
Group ==
    /\ pc = "group"
    /\ transactions' = Grouped(df)
    /\ IF transactions' = <<>>
       THEN Raise("ValueError: no transactions")
       ELSE pc' = "encode" /\ err' = err
    /\ UNCHANGED <<ncols, df, item_bestell_map, columns,
                   df_transformed, frequent_itemsets, rules, rules_export, G,
                   node_sizes, min_size, max_size, scaled_sizes, idvars, cfgvars>>

\* lines 51-53
Encode ==
    /\ pc = "encode"
    /\ columns' = TeColumns(transactions)
    /\ df_transformed' = TeTransform(transactions, columns')
    /\ pc' = "apriori"
    /\ UNCHANGED <<err, ncols, df, item_bestell_map, transactions,
                   frequent_itemsets, rules, rules_export, G,
                   node_sizes, min_size, max_size, scaled_sizes, idvars, cfgvars>>

\* line 57
Mine ==
    /\ pc = "apriori"
    /\ frequent_itemsets' = Apriori(df_transformed, columns, min_support)
    /\ pc' = "association_rules"
    /\ UNCHANGED <<err, ncols, df, item_bestell_map, transactions, columns,
                   df_transformed, rules, rules_export, G,
                   node_sizes, min_size, max_size, scaled_sizes, idvars, cfgvars>>

\* line 58; association_rules raises ValueError on an empty table of frequent
\* itemsets.  The elements of a frozenset of names iterate in an order that
\* depends on the hash seed of the interpreter: any order may be the one.
GenerateRules ==
    /\ pc = "association_rules"
    /\ IF frequent_itemsets = <<>>
       THEN Raise("ValueError: no frequent itemsets") /\ rules' = rules
       ELSE /\ \E hashorder \in HashOrders(Range(columns)) :
                  rules' = AssociationRules(frequent_itemsets, min_confidence,
                                            hashorder)
            /\ pc' = "annotate"
            /\ err' = err
    /\ UNCHANGED <<ncols, df, item_bestell_map, transactions, columns,
                   df_transformed, frequent_itemsets, rules_export, G,
                   node_sizes, min_size, max_size, scaled_sizes, idvars, cfgvars>>

\* lines 62-124
Annotate ==
    /\ pc = "annotate"
    /\ rules' = [i \in 1..Len(rules) |->
                    Annotated(df_transformed, columns, item_bestell_map, rules[i])]
    /\ pc' = "render"
    /\ UNCHANGED <<err, ncols, df, item_bestell_map, transactions, columns,
                   df_transformed, frequent_itemsets, rules_export, G,
                   node_sizes, min_size, max_size, scaled_sizes, idvars, cfgvars>>

\* lines 128-148
RenderExport ==
    /\ pc = "render"
    /\ rules' = [i \in 1..Len(rules) |-> Rendered(rules[i])]
    /\ rules_export' = rules'
    /\ pc' = "graph"
    /\ UNCHANGED <<err, ncols, df, item_bestell_map, transactions, columns,
                   df_transformed, frequent_itemsets, G,
                   node_sizes, min_size, max_size, scaled_sizes, idvars, cfgvars>>

\* lines 155-164
BuildGraph ==
    /\ pc = "graph"
    /\ G' = AddEdges(EmptyGraph, rules)
    /\ pc' = "node_sizes"
    /\ UNCHANGED <<err, ncols, df, item_bestell_map, transactions, columns,
                   df_transformed, frequent_itemsets, rules, rules_export,
                   node_sizes, min_size, max_size, scaled_sizes, idvars, cfgvars>>

\* lines 167-179
SumNodeSizes ==
    /\ pc = "node_sizes"
    /\ node_sizes' = NodeSizes(G, rules)
    /\ min_size' = MinSizeDefault
    /\ max_size' = MaxSizeDefault
    /\ pc' = "scale"
    /\ UNCHANGED <<err, ncols, df, item_bestell_map, transactions, columns,
                   df_transformed, frequent_itemsets, rules, rules_export, G,
                   scaled_sizes, idvars, cfgvars>>

\* lines 180-192
Scale ==
    /\ pc = "scale"
    /\ scaled_sizes' = ScaledSizes(node_sizes, min_size, max_size)
    /\ pc' = "done"
    /\ UNCHANGED <<err, ncols, df, item_bestell_map, transactions, columns,
                   df_transformed, frequent_itemsets, rules, rules_export, G,
                   node_sizes, min_size, max_size, idvars, cfgvars>>

Next ==
    \/ CheckColumns
    \/ BuildMap
    \/ Group
    \/ Encode
    \/ Mine
    \/ GenerateRules
    \/ Annotate
    \/ RenderExport
    \/ BuildGraph
    \/ SumNodeSizes
    \/ Scale

Spec == Init /\ [][Next]_vars

-----------------------------------------------------------------------------
(* The same run with the two thresholds as configuration *)

\* 0.001 and 0.15 are the literals of lines 57 and 58; with at most MaxTx
\* transactions they reject nothing, so larger thresholds are run as well
MinSupports == {MinSupportDefault, [num |-> 1, den |-> 2], [num |-> 1, den |-> 1]}
MinConfidences == {MinConfidenceDefault, [num |-> 1, den |-> 2]}

InitCfg ==
    \E sheet \in BasketInputs, ms \in MinSupports, mc \in MinConfidences :
        Start(RequiredColumns, sheet, ms, mc)

SpecCfg == InitCfg /\ [][Next]_vars

-----------------------------------------------------------------------------
(* create_unique_8digit_id from its step 3 on, for sampled values of        *)
(* hash_int % 10**8                                                        *)

ModValues ==
    {(a * 10 ^ k) % Modulus : a \in 0..MaxMantissa, k \in 0..(IdWidth - 1)}
    \cup {12345, Modulus - 1}

InitId ==
    /\ id_pc = "zfill"
    /\ mod_value \in ModValues
    /\ mod_str = <<>>
    /\ pc = "annotate"
    /\ err = ""
    /\ ncols = RequiredColumns
    /\ df = <<>>
    /\ item_bestell_map = <<>>
    /\ transactions = <<>>
    /\ columns = <<>>
    /\ df_transformed = <<>>
    /\ min_support = MinSupportDefault
    /\ min_confidence = MinConfidenceDefault
    /\ frequent_itemsets = <<>>
    /\ rules = <<>>
    /\ rules_export = <<>>
    /\ G = EmptyGraph
    /\ node_sizes = <<>>
    /\ min_size = 0
    /\ max_size = 0
    /\ scaled_sizes = <<>>

pipevars == <<pc, err, ncols, df, item_bestell_map, transactions, columns,
              df_transformed, frequent_itemsets, rules, rules_export, G,
              node_sizes, min_size, max_size, scaled_sizes, cfgvars>>

\* line 107
IdZfill ==
    /\ id_pc = "zfill"
    /\ mod_str' = Zfill(Str(mod_value), IdWidth)
    /\ id_pc' = "sub"
    /\ UNCHANGED <<mod_value, pipevars>>

\* lines 113-115
IdSub ==
    /\ id_pc = "sub"
    /\ mod_str' = ReSubLeadingZeros(mod_str)
    /\ id_pc' = "returned"
    /\ UNCHANGED <<mod_value, pipevars>>

NextId ==
    \/ IdZfill
    \/ IdSub

SpecId == InitId /\ [][NextId]_vars

-----------------------------------------------------------------------------
(* The normalisation of lines 180-192 for sampled dicts of node counts and  *)
(* sampled ranges                                                          *)

Labels == {ItemA, ItemB, ItemAB}
Counts == (0..MaxCount) \cup {10}
SizeRanges == {<<MinSizeDefault, MaxSizeDefault>>, <<0, 1>>, <<7, 7>>}

InitScale ==
    /\ pc = "scale"
    /\ \E nodes \in SUBSET Labels : node_sizes \in [nodes -> Counts]
    /\ \E r \in SizeRanges : min_size = r[1] /\ max_size = r[2]
    /\ scaled_sizes = <<>>
    /\ err = ""
    /\ ncols = RequiredColumns
    /\ df = <<>>
    /\ item_bestell_map = <<>>
    /\ transactions = <<>>
    /\ columns = <<>>
    /\ df_transformed = <<>>
    /\ min_support = MinSupportDefault
    /\ min_confidence = MinConfidenceDefault
    /\ frequent_itemsets = <<>>
    /\ rules = <<>>
    /\ rules_export = <<>>
    /\ G = EmptyGraph
    /\ id_pc = "idle"
    /\ mod_value = 0
    /\ mod_str = <<>>

NextScale == Scale

SpecScale == InitScale /\ [][NextScale]_vars

-----------------------------------------------------------------------------
(* Reference definitions, computed from the transactions themselves *)

Corpus == {Range(transactions[t]) : t \in 1..Len(transactions)}
AllItems == UNION Corpus
AllItemsets == (SUBSET AllItems) \ {{}}

\* number of transactions that contain every item of S
TrueCount(S) ==
    Cardinality({t \in 1..Len(transactions) : S \subseteq Range(transactions[t])})

TrulyFrequent(S) ==
    TrueCount(S) * min_support.den >= min_support.num * Len(transactions)

Mined == pc \in {"association_rules", "annotate"}

\* C1: the miner returns exactly the non-empty itemsets whose true support
\* (transactions containing the itemset / all transactions) is at least
\* min_support, each once and each with its true support.
ThmC1 ==
    Mined =>
        /\ \A i \in 1..Len(frequent_itemsets) :
              LET row == frequent_itemsets[i]
              IN  /\ row.itemsets \in AllItemsets
                  /\ TrulyFrequent(row.itemsets)
                  /\ row.support.den > 0
                  /\ row.support.num * Len(transactions)
                        = TrueCount(row.itemsets) * row.support.den
        /\ \A S \in AllItemsets :
              TrulyFrequent(S) =>
                  \E i \in 1..Len(frequent_itemsets) : frequent_itemsets[i].itemsets = S
        /\ \A i, j \in 1..Len(frequent_itemsets) :
              i # j => frequent_itemsets[i].itemsets # frequent_itemsets[j].itemsets

\* a frequent pair was found while a candidate made of frequent items was
\* rejected, at min_support 0.5
WitC1 ==
    /\ pc = "association_rules"
    /\ min_support = [num |-> 1, den |-> 2]
    /\ \E i \in 1..Len(frequent_itemsets) :
          Cardinality(frequent_itemsets[i].itemsets) >= 2
    /\ \E S \in AllItemsets :
          /\ Cardinality(S) >= 2
          /\ \A x \in S : TrulyFrequent({x})
          /\ ~TrulyFrequent(S)

RulesMade == pc = "annotate"

\* C2: every retained rule's confidence is support(antecedent u consequent)
\* / support(antecedent) over the transactions, and at least min_confidence.
ThmC2 ==
    RulesMade =>
        \A i \in 1..Len(rules) :
            LET r == rules[i]
                both == TrueCount(r.antecedents \cup r.consequents)
                ante == TrueCount(r.antecedents)
            IN  /\ ante > 0
                /\ r.confidence.den > 0
                /\ r.confidence.num * ante = both * r.confidence.den
                /\ both * min_confidence.den >= min_confidence.num * ante

\* a rule of confidence below 1 was retained and another bipartition of a
\* frequent itemset was rejected
WitC2 ==
    /\ RulesMade
    /\ \E i \in 1..Len(rules) : rules[i].confidence.num < rules[i].confidence.den
    /\ \E S \in AllItemsets : \E A \in (SUBSET S) \ {{}, S} :
          /\ TrulyFrequent(S)
          /\ TrueCount(S) * min_confidence.den < min_confidence.num * TrueCount(A)

\* the bipartitions (A, I - A) of the truly frequent itemsets I whose
\* confidence reaches min_confidence
ExpectedRules ==
    {p \in UNION {{<<A, S \ A>> : A \in (SUBSET S) \ {{}, S}} : S \in AllItemsets} :
        /\ TrulyFrequent(p[1] \cup p[2])
        /\ TrueCount(p[1] \cup p[2]) * min_confidence.den
              >= min_confidence.num * TrueCount(p[1])}

\* C3: the rule table is exactly the bipartitions (A, I - A) of the frequent
\* itemsets I of two or more items with confidence >= min_confidence, each
\* once, with antecedent and consequent non-empty and disjoint.
ThmC3 ==
    RulesMade =>
        /\ {<<rules[i].antecedents, rules[i].consequents>> : i \in 1..Len(rules)}
              = ExpectedRules
        /\ \A i, j \in 1..Len(rules) :
              i # j => <<rules[i].antecedents, rules[i].consequents>>
                          # <<rules[j].antecedents, rules[j].consequents>>
        /\ \A i \in 1..Len(rules) :
              /\ rules[i].antecedents # {}
              /\ rules[i].consequents # {}
              /\ rules[i].antecedents \cap rules[i].consequents = {}

\* rules of a three-item itemset were made, and one bipartition was dropped
\* for its confidence
WitC3 ==
    /\ RulesMade
    /\ \E i \in 1..Len(rules) :
          Cardinality(rules[i].antecedents \cup rules[i].consequents) = 3
    /\ \E i \in 1..Len(rules) :
          <<rules[i].consequents, rules[i].antecedents>> \notin ExpectedRules

RawItemsOf(sheet) == {sheet[i].item : i \in 1..Len(sheet)} \ {NaN}

\* the reference code of the first record of the item
FirstRef(sheet, item) ==
    sheet[Minimum({i \in 1..Len(sheet) : sheet[i].item = item})].ref

FirstPairIndex(sheet, item, ref) ==
    Minimum({i \in 1..Len(sheet) : sheet[i].item = item /\ sheet[i].ref = ref})

\* the reference code of the item whose first record with the item comes last
LastDistinctRef(sheet, item) ==
    LET refs == {sheet[i].ref : i \in {j \in 1..Len(sheet) : sheet[j].item = item}}
    IN  CHOOSE r \in refs :
            \A q \in refs : FirstPairIndex(sheet, item, q) <= FirstPairIndex(sheet, item, r)

MapBuilt == pc \notin {"check_columns", "map"} /\ err # "ValueError: columns"

\* the dash-joined sorted codes that codes gives the items of the rule
MatFrom(row, codes) ==
    Join(<<DASH>>, Sorted({Str(codes[x]) :
            x \in (row.antecedents \cup row.consequents) \cap DOMAIN codes}))

FirstRefs == [item \in RawItemsOf(df) |-> FirstRef(df, item)]
LastDistinctRefs == [item \in RawItemsOf(df) |-> LastDistinctRef(df, item)]

Digit(v, i) == (v \div 10 ^ (IdWidth - i)) % 10
LeadRun(v) == Cardinality({k \in 1..IdWidth : v < 10 ^ (IdWidth - k)})
ExpectedId(v) ==
    [i \in 1..IdWidth |-> IF i <= LeadRun(v) THEN NINE ELSE ZERO + Digit(v, i)]

\* C5: the id is the zero-padded 8-digit form of the modulo value with its
\* leading run of zeros, and only that run, replaced by nines: eight decimal
\* digits, never starting with 0; 0 gives 99999999 and 12345 gives 99912345.
ThmC5 ==
    id_pc = "returned" =>
        /\ Len(mod_str) = IdWidth
        /\ \A i \in 1..Len(mod_str) : mod_str[i] \in ZERO..NINE
        /\ mod_str = ExpectedId(mod_value)
        /\ mod_str[1] # ZERO
        /\ mod_value = 0 => mod_str = [i \in 1..IdWidth |-> NINE]
        /\ mod_value = 12345 => mod_str = <<57, 57, 57, 49, 50, 51, 52, 53>>

\* an id was returned for a value with leading zeros and a zero further right
WitC5 ==
    /\ id_pc = "returned"
    /\ LeadRun(mod_value) >= 1
    /\ \E i \in (LeadRun(mod_value) + 1)..IdWidth : mod_str[i] = ZERO

RECURSIVE ExactTotal(_, _)
ExactTotal(node, rows) ==
    IF rows = <<>> THEN 0
    ELSE (IF Head(rows).antecedents = node \/ Head(rows).consequents = node
          THEN Head(rows).combination_count ELSE 0)
         + ExactTotal(node, Tail(rows))

\* C6: a node's aggregate count is the sum of combination_count over exactly
\* the rules whose antecedent string or consequent string is the node's label.
CexC6 ==
    pc \in {"scale", "done"} =>
        \A node \in DOMAIN node_sizes : node_sizes[node] = ExactTotal(node, rules)

Grouping == {"check_columns", "map", "group"}

\* C7: no transaction handed to the encoder and the miner is empty; an id
\* whose records all lack an item name is not counted as a transaction.
CexC7 ==
    pc \notin Grouping \cup {"error"} =>
        /\ \A t \in 1..Len(transactions) : transactions[t] # <<>>
        /\ Len(transactions)
              = Cardinality({df[i].id : i \in {j \in 1..Len(df) : df[j].item # NaN}})

\* C8: with fewer than 3 fields, or with no record that has an item name, the
\* run ends in the validation error before anything is encoded or mined.
CexC8 ==
    (ncols < RequiredColumns \/ \A i \in 1..Len(df) : df[i].item = NaN) =>
        /\ pc \in Grouping \cup {"error"}
        /\ pc = "error" => df_transformed = <<>> /\ frequent_itemsets = <<>>

RulePairs == {<<rules[i].antecedents, rules[i].consequents>> : i \in 1..Len(rules)}

LastRule(p) ==
    rules[Maximum({i \in 1..Len(rules) :
                      <<rules[i].antecedents, rules[i].consequents>> = p})]

\* C9: the graph holds exactly one edge per distinct (antecedent string,
\* consequent string) pair of the rule table, carrying the confidence and
\* combination_count of the last rule of that pair; never more edges than rules.
ThmC9 ==
    pc \in {"node_sizes", "scale", "done"} =>
        /\ DOMAIN G.edges = RulePairs
        /\ \A p \in RulePairs :
              G.edges[p] = [weight |-> LastRule(p).confidence,
                            combination_count |-> LastRule(p).combination_count]
        /\ Cardinality(DOMAIN G.edges) <= Len(rules)

\* two rules rendered to the same pair of strings, with different confidence
WitC9 ==
    /\ pc = "node_sizes"
    /\ \E i, j \in 1..Len(rules) :
          /\ i < j
          /\ rules[i].antecedents = rules[j].antecedents
          /\ rules[i].consequents = rules[j].consequents
          /\ rules[i].confidence # rules[j].confidence

\* C10: with all aggregates equal every node gets the midpoint of the range
\* (1650 for 300..3000) and nothing is divided by zero; otherwise a node gets
\* min_size + (count - min_count) / (max_count - min_count) * (max_size -
\* min_size), which lies in the range, is min_size for the smallest aggregate
\* and max_size for the largest.
ThmC10 ==
    (pc = "done" /\ DOMAIN node_sizes # {}) =>
        LET counts == {node_sizes[n] : n \in DOMAIN node_sizes}
            mn == Minimum(counts)
            mx == Maximum(counts)
        IN  /\ DOMAIN scaled_sizes = DOMAIN node_sizes
            /\ \A n \in DOMAIN node_sizes :
                  LET s == scaled_sizes[n]
                      c == node_sizes[n]
                  IN  /\ s.den > 0
                      /\ min_size * s.den <= s.num
                      /\ s.num <= max_size * s.den
                      /\ mn = mx => 2 * s.num = (min_size + max_size) * s.den
                      /\ (mn = mx /\ min_size = 300 /\ max_size = 3000)
                            => s.num = 1650 * s.den
                      /\ mn # mx =>
                            /\ s.num * (mx - mn)
                                  = s.den * (min_size * (mx - mn)
                                             + (c - mn) * (max_size - min_size))
                            /\ c = mn => s.num = min_size * s.den
                            /\ c = mx => s.num = max_size * s.den

\* three nodes of three different aggregates were scaled to 300..3000
WitC10 ==
    /\ pc = "done"
    /\ min_size = 300
    /\ max_size = 3000
    /\ \E a, b, c \in DOMAIN node_sizes :
          /\ node_sizes[a] < node_sizes[b]
          /\ node_sizes[b] < node_sizes[c]
          /\ scaled_sizes[a].num < scaled_sizes[b].num
          /\ node_sizes[c] = 10

====
